---- MODULE Spec2Model ----
(***************************************************************************)
(* State-machine model of the decision-tree engine: TreeExecutor           *)
(* (engine/tree_executor.py) and the six node handlers                     *)
(* (engine/node_handlers.py), with the mock collaborators under services/. *)
(***************************************************************************)
EXTENDS Integers, Sequences, FiniteSets, TLC

(* ---------------------------------------------------------------------- *)
(* Bounds                                                                  *)
(* ---------------------------------------------------------------------- *)

\* Largest number of handler invocations explored in one execute call (the
\* while loop of execute has no limit of its own).
MaxSteps == 5

(* ---------------------------------------------------------------------- *)
(* Python values                                                           *)
(* ---------------------------------------------------------------------- *)

\* A Python value is a record of its type and a printed form of its value.
PyNone == [ty |-> "NoneType", val |-> ""]
PyStr(s) == [ty |-> "str", val |-> s]
PyBytes(s) == [ty |-> "bytes", val |-> s]
PyTrue == [ty |-> "bool", val |-> "1"]
PyInt1 == [ty |-> "int", val |-> "1"]
PyDict(s) == [ty |-> "dict", val |-> s]

\* Python None where a config field names a node id or a bag key
\* (dict.get of a field the YAML omits).
NoneId == "<None>"

\* bool(x) for an id or key read from the configuration.
IdTruthy(id) == id # NoneId /\ id # ""

\* bool(v) for a value of the bag.
Truthy(v) ==
    CASE v.ty = "NoneType" -> FALSE
      [] v.ty \in {"str", "bytes"} -> v.val # ""
      [] v.ty \in {"bool", "int"} -> v.val # "0"
      [] OTHER -> TRUE

\* a == b. bool is a subclass of int and compares by number; a str never
\* equals a number, None equals only None.
PyEq(a, b) ==
    IF a.ty \in {"bool", "int"} /\ b.ty \in {"bool", "int"}
    THEN a.val = b.val
    ELSE a = b

\* dict.get(key) and dict.get(key, default)
GetOr(bag, key, default) == IF key \in DOMAIN bag THEN bag[key] ELSE default
Get(bag, key) == GetOr(bag, key, PyNone)

\* bag[key] = value
Put(bag, key, value) ==
    [k \in DOMAIN bag \cup {key} |-> IF k = key THEN value ELSE bag[k]]

\* k.startswith("_")
StartsWithUnderscore(k) == Len(k) > 0 /\ SubSeq(k, 1, 1) = "_"

(* ---------------------------------------------------------------------- *)
(* Collaborators (services/)                                               *)
(* ---------------------------------------------------------------------- *)

\* What a collaborator call yields: a value, or an exception.
Returns(v) == [raised |-> FALSE, err |-> "", value |-> v]
Throws(e) == [raised |-> TRUE, err |-> e, value |-> PyNone]

\* Texts holding one of the keywords "home visit", "house call", "visit home".
HomeVisitTexts == {"t_visit", "t_visit[REDACTED]"}

\* Texts holding one of the keywords "no visit", "not needed", "unnecessary".
NoVisitTexts == {"no visit"}

\* The prompt of the model's llm nodes; it holds the words "home visit".
HomeVisitPrompt == "Is a home visit needed?"

\* transcribe_audio: the module never imports random, so the call of
\* random.choice on its last line raises NameError for every payload.
transcribe_audio(audio_file) == Throws("NameError")

\* get_call_metadata: a copy of the record of call_id, or of the default
\* record; MOCK_DATABASE.get raises TypeError for an identifier that cannot
\* be hashed, as a dict cannot.
get_call_metadata(call_id) ==
    IF call_id.ty = "dict" THEN Throws("TypeError")
    ELSE Returns(IF call_id = PyStr("call_123") THEN PyDict("call_123")
                 ELSE PyDict("default"))

\* deidentify_text: re.sub over the text (TypeError when it is no str);
\* t_visit is the text of the model that holds a name.
deidentify_text(text) ==
    IF text.ty # "str" THEN Throws("TypeError")
    ELSE Returns(PyStr(IF text.val = "t_visit" THEN "t_visit[REDACTED]"
                       ELSE text.val))

\* process_llm_request for a home-visit prompt: text.lower() needs a str or
\* bytes (AttributeError otherwise) and the keyword tests a str (TypeError for
\* bytes).
process_llm_request(text, prompt) ==
    IF text.ty = "bytes" THEN Throws("TypeError")
    ELSE IF text.ty # "str" THEN Throws("AttributeError")
    ELSE Returns(PyStr(IF text.val \in HomeVisitTexts THEN "yes"
                       ELSE IF text.val \in NoVisitTexts THEN "no"
                       ELSE "unclear"))

(* ---------------------------------------------------------------------- *)
(* Node handlers (engine/node_handlers.py)                                 *)
(* ---------------------------------------------------------------------- *)

\* What a handler invocation yields: the bag and the next node id, or an
\* exception; called tells whether the collaborator was called.
Ok(bag, next, called) ==
    [raised |-> FALSE, err |-> "", bag |-> bag, next |-> next, called |-> called]
Raise(e, bag, called) ==
    [raised |-> TRUE, err |-> e, bag |-> bag, next |-> NoneId, called |-> called]

\* A plausible defect: a result with no output_key is recorded under "result".
WriteOutputDefaultKey(node, bag, value) ==
    Put(bag, IF IdTruthy(node.output_key) THEN node.output_key ELSE "result", value)

\* if output_key: workflow_data[output_key] = result
WriteOutput(node, bag, value) ==
    IF IdTruthy(node.output_key) THEN Put(bag, node.output_key, value) ELSE bag

handle_stt_node(node, bag) ==
    IF node.input_key # "audio_file" THEN Raise("stt_input_key", bag, FALSE)
    ELSE IF node.input_key \notin DOMAIN bag THEN Raise("stt_missing_input", bag, FALSE)
    ELSE LET r == transcribe_audio(Get(bag, node.input_key))
         IN  IF r.raised THEN Raise(r.err, bag, TRUE)
             ELSE Ok(WriteOutput(node, bag, r.value), node.next_node, TRUE)

handle_sql_node(node, bag) ==
    LET r == get_call_metadata(GetOr(bag, "call_id", PyStr("default")))
    IN  IF r.raised THEN Raise(r.err, bag, TRUE)
        ELSE Ok(WriteOutput(node, bag, r.value), node.next_node, TRUE)

\* A plausible defect: only the presence of the input key is tested.
handle_deidentify_node_absent_only(node, bag) ==
    LET input_value == Get(bag, node.input_key)
    IN  IF node.input_key \notin DOMAIN bag
        THEN Raise("deidentify_missing_input", bag, FALSE)
        ELSE LET r == deidentify_text(input_value)
             IN  IF r.raised THEN Raise(r.err, bag, TRUE)
                 ELSE Ok(WriteOutput(node, bag, r.value), node.next_node, TRUE)

\* A plausible defect: the input is tested after the collaborator call.
handle_deidentify_node_call_first(node, bag) ==
    LET input_value == Get(bag, node.input_key)
        r == deidentify_text(input_value)
    IN  IF r.raised THEN Raise(r.err, bag, TRUE)
        ELSE IF ~Truthy(input_value)
        THEN Raise("deidentify_missing_input", bag, TRUE)
        ELSE Ok(WriteOutput(node, bag, r.value), node.next_node, TRUE)

handle_deidentify_node(node, bag) ==
    LET input_value == Get(bag, node.input_key)
    IN  IF ~Truthy(input_value) THEN Raise("deidentify_missing_input", bag, FALSE)
        ELSE LET r == deidentify_text(input_value)
             IN  IF r.raised THEN Raise(r.err, bag, TRUE)
                 ELSE Ok(WriteOutput(node, bag, r.value), node.next_node, TRUE)

\* A plausible defect: the prompt is not tested.
handle_llm_node_no_prompt_check(node, bag) ==
    LET input_value == Get(bag, node.input_key)
    IN  IF ~Truthy(input_value) THEN Raise("llm_missing_input", bag, FALSE)
        ELSE LET r == process_llm_request(input_value, node.prompt)
             IN  IF r.raised THEN Raise(r.err, bag, TRUE)
                 ELSE Ok(WriteOutput(node, bag, r.value), node.next_node, TRUE)

handle_llm_node(node, bag) ==
    LET input_value == Get(bag, node.input_key)
    IN  IF ~IdTruthy(node.prompt) THEN Raise("llm_missing_prompt", bag, FALSE)
        ELSE IF ~Truthy(input_value) THEN Raise("llm_missing_input", bag, FALSE)
        ELSE LET r == process_llm_request(input_value, node.prompt)
             IN  IF r.raised THEN Raise(r.err, bag, TRUE)
                 ELSE Ok(WriteOutput(node, bag, r.value), node.next_node, TRUE)

handle_condition_node(node, bag) ==
    LET actual_value == Get(bag, node.condition_key)
    IN  IF PyEq(actual_value, node.condition_value)
        THEN Ok(bag, node.true_node, FALSE)
        ELSE Ok(bag, node.false_node, FALSE)

\* A plausible defect: the exit status is not recorded in the bag.
handle_exit_node_no_status(node, bag) ==
    Ok(Put(bag, "_exit", PyTrue), NoneId, FALSE)

handle_exit_node(node, bag) ==
    LET status == IF node.has_status THEN node.status ELSE PyStr("success")
    IN  Ok(Put(Put(bag, "_exit", PyTrue), "_exit_status", status), NoneId, FALSE)

\* The keys of the handlers table of get_node_handler.
RegisteredTypes == {"stt", "sql", "deidentify", "llm", "condition", "exit"}

\* get_node_handler(node_type) applied to (node_config, workflow_data), for a
\* registered type.
RunHandler(node, bag) ==
    CASE node.type = "stt" -> handle_stt_node(node, bag)
      [] node.type = "sql" -> handle_sql_node(node, bag)
      [] node.type = "deidentify" -> handle_deidentify_node(node, bag)
      [] node.type = "llm" -> handle_llm_node(node, bag)
      [] node.type = "condition" -> handle_condition_node(node, bag)
      [] node.type = "exit" -> handle_exit_node(node, bag)

(* ---------------------------------------------------------------------- *)
(* Workflow documents, trees and initial bags the model draws from         *)
(* ---------------------------------------------------------------------- *)

\* A node of the YAML document: type and next_node of the node, the fields
\* of its node_config flattened beside them; has_status tells whether the
\* node_config holds the key status.
BlankNode ==
    [type |-> NoneId, input_key |-> NoneId, output_key |-> NoneId,
     prompt |-> NoneId, next_node |-> NoneId, condition_key |-> NoneId,
     condition_value |-> PyNone, true_node |-> NoneId, false_node |-> NoneId,
     has_status |-> FALSE, status |-> PyNone]

ExitNode == [BlankNode EXCEPT !.type = "exit"]
ExitNodeWith(status) ==
    [BlankNode EXCEPT !.type = "exit", !.has_status = TRUE, !.status = status]
LinearNode(type, input_key, output_key, next_node) ==
    [BlankNode EXCEPT !.type = type, !.input_key = input_key,
                      !.output_key = output_key, !.next_node = next_node,
                      !.prompt = IF type = "llm" THEN HomeVisitPrompt ELSE NoneId]
ConditionNode(key, value, true_node, false_node) ==
    [BlankNode EXCEPT !.type = "condition", !.condition_key = key,
                      !.condition_value = value, !.true_node = true_node,
                      !.false_node = false_node]

\* Nodes a document may have at n1, its start node. The documents define the
\* ids n1, n2 and n3; nX is referenced by some nodes and never defined.
StartNodes ==
    {ExitNode, ExitNodeWith(PyStr("done")),
     [BlankNode EXCEPT !.type = "archive"],
     BlankNode,
     [LinearNode("llm", "flag", "flag", "n2") EXCEPT !.prompt = NoneId],
     LinearNode("stt", "audio_file", "flag", "n2"),
     LinearNode("stt", "flag", "flag", "n2"),
     LinearNode("deidentify", "flag", "flag", "n2"),
     LinearNode("llm", "flag", "flag", "n2")}
    \cup {LinearNode("sql", NoneId, out, next) :
            out \in {NoneId, "flag", "_exit", "_exit_status"},
            next \in {NoneId, "n2", "nX"}}
    \cup {ConditionNode("flag", v, t, "n2") :
            v \in {PyStr("yes"), PyNone, PyInt1},
            t \in {"n3", "nX", NoneId}}

\* Nodes a document may have at n2.
SecondNodes ==
    {ExitNodeWith(PyStr("done")),
     LinearNode("sql", NoneId, NoneId, "n3"),
     LinearNode("sql", NoneId, "flag", "n1"),
     LinearNode("llm", "flag", "flag", "n1"),
     ConditionNode("flag", PyStr("yes"), "n3", "n1")}

\* Nodes a document may have at n3.
ThirdNodes ==
    {ExitNode, ExitNodeWith(PyNone), LinearNode("sql", NoneId, NoneId, NoneId)}

\* config.get("tree", {}) of a well-formed document.
Trees ==
    {[name |-> "call_flow", start_node |-> "n1",
      nodes |-> ("n1" :> a @@ "n2" :> b @@ "n3" :> c)] :
        a \in StartNodes, b \in SecondNodes, c \in ThirdNodes}

\* config.get("tree", {}) of documents that lack start_node, lack nodes, hold
\* an empty node map, or name a start node the node map lacks.
OddTrees ==
    {[name |-> "call_flow", start_node |-> NoneId, nodes |-> ("n1" :> ExitNode)],
     [name |-> "call_flow", start_node |-> "n1", nodes |-> <<>>],
     [name |-> NoneId, start_node |-> NoneId, nodes |-> <<>>],
     [name |-> "call_flow", start_node |-> "nX", nodes |-> ("n1" :> ExitNode)]}

\* The value of tree_config set by __init__ before the load.
EmptyTree == [name |-> NoneId, start_node |-> NoneId, nodes |-> <<>>]

\* config.get("tree", {}) of well-formed documents whose tree has no name.
NamelessTrees ==
    {[name |-> NoneId, start_node |-> "n1",
      nodes |-> ("n1" :> a @@ "n2" :> ExitNodeWith(PyStr("done")) @@ "n3" :> ExitNode)] :
        a \in {ExitNode, LinearNode("sql", NoneId, "flag", "n2")}}

\* config.get("tree", {}) of documents whose second node has a type that is
\* not registered or has no type, or whose first node writes call_id, or
\* whose exit node has a status that YAML reads as bytes (!!binary).
SpecialTrees ==
    {[name |-> "call_flow", start_node |-> "n1",
      nodes |-> ("n1" :> a @@ "n2" :> ExitNodeWith(PyBytes("a")) @@ "n3" :> ExitNode)] :
        a \in {ExitNodeWith(PyBytes("a")), LinearNode("sql", NoneId, "flag", "n2")}}
    \cup
    {[name |-> "call_flow", start_node |-> "n1",
      nodes |-> ("n1" :> LinearNode("sql", NoneId, out, "n2")
                 @@ "n2" :> b @@ "n3" :> ExitNode)] :
        out \in {"flag", "call_id"},
        b \in {[BlankNode EXCEPT !.type = "archive"], BlankNode,
                LinearNode("sql", NoneId, "flag", "n3")}}

\* The document yaml.safe_load or get_github_config returns for a tree.
Doc(tree) == [readable |-> TRUE, has_tree |-> TRUE, tree |-> tree]

\* A document with no "tree" key.
NoTreeDoc == [readable |-> TRUE, has_tree |-> FALSE, tree |-> EmptyTree]

\* A configuration that cannot be read: the file is missing, the YAML does
\* not parse, or the fetch fails.
UnreadableDoc == [readable |-> FALSE, has_tree |-> FALSE, tree |-> EmptyTree]

\* config.get("tree", {})
TreeOf(config) == IF config.has_tree THEN config.tree ELSE EmptyTree

\* The configurations an executor is constructed on.
Documents ==
    {Doc(t) : t \in Trees \cup OddTrees \cup NamelessTrees \cup SpecialTrees}
    \cup {NoTreeDoc, UnreadableDoc}

\* The strings datetime.fromisoformat parses.
IsoStamps == {"2024-01-15T10:30:00"}

\* The dict holding exactly the given (key, value) pairs.
BagOf(pairs) ==
    [k \in {p[1] : p \in pairs} |-> (CHOOSE p \in pairs : p[1] = k)[2]]

\* A key left out, or held with one of the values.
Opt(key, values) == {{}} \cup {{<<key, v>>} : v \in values}

\* The maps a caller passes as initial_workflow_data.
InitialBags ==
    {BagOf({<<"call_id", PyStr("1")>>} \cup j \cup a \cup f \cup x \cup s) :
        j \in Opt("job_submission_datetime",
                  {PyStr("2024-01-15T10:30:00"), PyStr("yesterday")}),
        a \in Opt("audio_file", {PyBytes("")}),
        f \in Opt("flag", {PyStr("yes"), PyStr("t_visit"), PyTrue}),
        x \in Opt("_exit", {PyTrue}),
        s \in Opt("_exit_status", {PyStr("failed")})}
    \cup {BagOf(c \cup {<<"job_submission_datetime", PyStr("2024-01-15T10:30:00")>>}) :
            c \in Opt("call_id", {PyStr("")})}

(* ---------------------------------------------------------------------- *)
(* TreeExecutor (engine/tree_executor.py)                                  *)
(* ---------------------------------------------------------------------- *)

\* The commit SHA of the deployed configuration.
CommitSha == "3f2a9c1"

VARIABLES
    pc,               \* where the executor is: new, init_failed, load_failed,
                      \* loaded, running, finishing, returned, raised
    err,              \* the exception raised to the caller, "" when none
    commit_sha,       \* the commit_sha the constructor was called with
    document,         \* the configuration load_tree_config read last
    tree_config,      \* self.tree_config
    heap,             \* the dict objects: the caller's map and its copy
    workflow_data,    \* the dict object execute's workflow_data refers to
    call_snapshot,    \* what the caller's map held when execute was called
    execution_path,   \* execute's execution_path
    current_node_id,  \* execute's current_node_id
    result,           \* <<>>, or <<r>> with r the result execute returned
    saved,            \* the result files written
    handler_calls,    \* handler invocations of this execute call
    exit_calls,       \* handler_calls when an exit handler ran, else 0
    collab_calls,     \* collaborator calls of this execute call
    cache,            \* _github_cache._cache: cache key -> document
    fetch_count,      \* cache key -> documents fetched from the remote source
    get_calls,        \* thread -> its call of get_config
    runs,             \* thread -> its call of execute, when calls overlap
    dicts             \* the dict objects of the overlapping calls of execute

\* The state of the configuration cache and of the calls of get_config.
cacheVars == <<cache, fetch_count, get_calls>>

\* The state of the overlapping calls of execute.
runVars == <<runs, dicts>>

vars == <<pc, err, commit_sha, document, tree_config, heap, workflow_data,
          call_snapshot, execution_path, current_node_id, result, saved,
          handler_calls, exit_calls, collab_calls, cacheVars, runVars>>

\* The threads that call get_config or execute.
Threads == {"t1", "t2"}

\* The dict objects of the overlapping calls: each caller's map, each call's
\* copy of it.
DictRefs == {"caller", "copy"} \X Threads

\* A thread that is not in execute: calls counts the calls it has made and
\* prev holds the map and the outcome of its last one.
IdleRun ==
    [pc |-> "idle", ref |-> <<"caller", "t1">>, bag0 |-> <<>>, path |-> <<>>,
     node |-> NoneId, out |-> <<>>, err |-> "", overlapped |-> FALSE,
     calls |-> 0, prev |-> <<>>]

\* No call of execute yet.
RunsInit ==
    /\ runs = [t \in Threads |-> IdleRun]
    /\ dicts = [r \in DictRefs |-> <<>>]

\* cache_key = commit_sha or "latest"
CacheKey(sha) == IF IdTruthy(sha) THEN sha ELSE "latest"
CacheKeys == {CommitSha, "latest"}

\* A thread that is not in get_config.
IdleCall == [pc |-> "idle", key |-> "latest", got |-> <<>>]

\* GitHubConfigCache.__init__ for the global _github_cache.
CacheInit ==
    /\ cache = <<>>
    /\ fetch_count = [k \in CacheKeys |-> 0]
    /\ get_calls = [t \in Threads |-> IdleCall]

\* No configuration read yet.
NoDocument == [readable |-> FALSE, has_tree |-> FALSE, tree |-> EmptyTree,
               read |-> FALSE]

Init ==
    /\ pc = "new"
    /\ err = ""
    /\ commit_sha = NoneId
    /\ document = NoDocument
    /\ tree_config = EmptyTree
    /\ heap = [r \in {"caller", "copy"} |-> <<>>]
    /\ workflow_data = "none"
    /\ call_snapshot = <<>>
    /\ execution_path = <<>>
    /\ current_node_id = NoneId
    /\ result = <<>>
    /\ saved = <<>>
    /\ handler_calls = 0
    /\ exit_calls = 0
    /\ collab_calls = 0
    /\ CacheInit
    /\ RunsInit

\* The ids a node refers to: next_node, true_node, false_node.
References(node) ==
    {id \in {node.next_node, node.true_node, node.false_node} : IdTruthy(id)}

\* Whether some node of the tree refers to an id the node map lacks.
HasDanglingReference(tree) ==
    \E n \in DOMAIN tree.nodes :
        \E id \in References(tree.nodes[n]) : id \notin DOMAIN tree.nodes

\* A plausible defect: the references of the nodes are validated at load time.
ValidateTreeEager(tree) ==
    IF ~IdTruthy(tree.start_node) THEN "no_start_node"
    ELSE IF DOMAIN tree.nodes = {} THEN "no_nodes"
    ELSE IF HasDanglingReference(tree) THEN "node_not_found"
    ELSE ""

\* A plausible defect: the node map is not validated.
ValidateTreeStartOnly(tree) ==
    IF ~IdTruthy(tree.start_node) THEN "no_start_node" ELSE ""

\* The validation of load_tree_config: the ValueError it raises, "" when none.
ValidateTree(tree) ==
    IF ~IdTruthy(tree.start_node) THEN "no_start_node"
    ELSE IF DOMAIN tree.nodes = {} THEN "no_nodes"
    ELSE ""

\* load_tree_config on the configuration the path or URL yields: the document
\* is read, its tree is assigned to self.tree_config, and then validated.
LoadTreeConfig(config) ==
    /\ document' = config
    /\ IF ~config.readable
       THEN /\ err' = "unreadable"
            /\ UNCHANGED tree_config
       ELSE /\ tree_config' = TreeOf(config)
            /\ err' = ValidateTree(TreeOf(config))

\* A plausible defect: the constructor accepts a missing commit_sha.
CommitShaNeverMissing(sha) == FALSE

\* commit_sha is None
CommitShaMissing(sha) == sha = NoneId

\* __init__: the commit_sha is required, then the configuration is loaded.
TreeExecutor(sha, config) ==
    /\ pc = "new"
    /\ commit_sha' = sha
    /\ IF CommitShaMissing(sha)
       THEN /\ pc' = "init_failed"
            /\ err' = "commit_sha_required"
            /\ UNCHANGED <<document, tree_config>>
       ELSE /\ LoadTreeConfig(config)
            /\ pc' = IF err' = "" THEN "loaded" ELSE "load_failed"
    /\ UNCHANGED <<heap, workflow_data, call_snapshot, execution_path,
                   current_node_id, result, saved, handler_calls, exit_calls,
                   collab_calls>>
    /\ UNCHANGED <<cacheVars, runVars>>

\* A plausible defect: workflow_data is the caller's map itself.
DictCopyAlias(ref) == ref

\* initial_workflow_data.copy(): the dict object the copy lives in.
DictCopy(ref) == "copy"

\* A plausible defect: only the presence of call_id is tested.
CallIdAbsent(bag) == "call_id" \notin DOMAIN bag

\* "call_id" not in initial_workflow_data or not initial_workflow_data["call_id"]
CallIdMissing(bag) == "call_id" \notin DOMAIN bag \/ ~Truthy(Get(bag, "call_id"))

\* execute, up to the while loop.
ExecuteStart(bag) ==
    /\ pc = "loaded"
    /\ call_snapshot' = bag
    /\ IF CallIdMissing(bag)
       THEN /\ pc' = "raised"
            /\ err' = "call_id_required"
            /\ heap' = [heap EXCEPT !["caller"] = bag]
            /\ UNCHANGED <<workflow_data, current_node_id>>
       ELSE /\ workflow_data' = DictCopy("caller")
            /\ heap' = [r \in {"caller", "copy"} |-> bag]
            /\ current_node_id' = tree_config.start_node
            /\ pc' = IF IdTruthy(tree_config.start_node) THEN "running" ELSE "finishing"
            /\ err' = ""
    /\ execution_path' = <<>>
    /\ UNCHANGED <<commit_sha, document, tree_config, result, saved,
                   handler_calls, exit_calls, collab_calls>>
    /\ UNCHANGED <<cacheVars, runVars>>

\* The node map and the node execute is at.
Nodes == tree_config.nodes
CurrentNode == Nodes[current_node_id]

\* workflow_data.get("_exit"), the exit test of the loop.
ExitFlagSet(bag) == Truthy(Get(bag, "_exit"))

\* A plausible defect: an unknown node id ends the traversal like a dead end.
UnknownNodeAsDeadEnd ==
    /\ pc = "running"
    /\ current_node_id \notin DOMAIN Nodes
    /\ pc' = "finishing"
    /\ UNCHANGED <<err, commit_sha, document, tree_config, heap,
                   workflow_data, call_snapshot, execution_path,
                   current_node_id, result, saved, handler_calls, exit_calls,
                   collab_calls>>
    /\ UNCHANGED <<cacheVars, runVars>>

\* One turn of the loop at an id the node map lacks: ValueError.
RaiseUnknownNode ==
    /\ pc = "running"
    /\ current_node_id \notin DOMAIN Nodes
    /\ pc' = "raised"
    /\ err' = "node_not_found"
    /\ UNCHANGED <<commit_sha, document, tree_config, heap, workflow_data,
                   call_snapshot, execution_path, current_node_id, result,
                   saved, handler_calls, exit_calls, collab_calls>>
    /\ UNCHANGED <<cacheVars, runVars>>

\* A plausible defect: a node of an unregistered type is recorded and passed
\* over.
SkipUnknownType ==
    /\ pc = "running"
    /\ current_node_id \in DOMAIN Nodes
    /\ CurrentNode.type \notin RegisteredTypes
    /\ execution_path' = Append(execution_path, current_node_id)
    /\ current_node_id' = CurrentNode.next_node
    /\ pc' = IF IdTruthy(CurrentNode.next_node) THEN "running" ELSE "finishing"
    /\ UNCHANGED <<err, commit_sha, document, tree_config, heap,
                   workflow_data, call_snapshot, result, saved, handler_calls,
                   exit_calls, collab_calls>>
    /\ UNCHANGED <<cacheVars, runVars>>

\* One turn of the loop at a node whose type get_node_handler does not know:
\* ValueError.
RaiseUnknownType ==
    /\ pc = "running"
    /\ current_node_id \in DOMAIN Nodes
    /\ CurrentNode.type \notin RegisteredTypes
    /\ pc' = "raised"
    /\ err' = "unknown_node_type"
    /\ UNCHANGED <<commit_sha, document, tree_config, heap, workflow_data,
                   call_snapshot, execution_path, current_node_id, result,
                   saved, handler_calls, exit_calls, collab_calls>>
    /\ UNCHANGED <<cacheVars, runVars>>

\* A plausible defect: a node already on the path is not recorded again.
TrackPathOnce(path, id) ==
    IF \E i \in 1..Len(path) : path[i] = id THEN path ELSE Append(path, id)

\* execution_path.append(current_node_id)
TrackPath(path, id) == Append(path, id)

\* A plausible defect: the error of a handler is logged and the traversal
\* ends as at a dead end.
HandlerErrorSwallowed(e) == [pc |-> "finishing", err |-> ""]

\* A plausible defect: the loop calls a handler that raised once more.
HandlerErrorRetried(e) == [pc |-> "running", err |-> ""]

\* The handler is called outside any try: its exception is execute's.
HandlerError(e) == [pc |-> "raised", err |-> e]

\* One turn of the loop at a node of a registered type: the handler runs on
\* the dict workflow_data refers to; when it returns, the id is appended to
\* the path, the exit flag is tested and the loop moves to the next id.
HandlerStep ==
    /\ pc = "running"
    /\ handler_calls < MaxSteps
    /\ current_node_id \in DOMAIN Nodes
    /\ CurrentNode.type \in RegisteredTypes
    /\ LET r == RunHandler(CurrentNode, heap[workflow_data])
       IN  /\ handler_calls' = handler_calls + 1
           /\ collab_calls' = IF r.called THEN collab_calls + 1 ELSE collab_calls
           /\ IF r.raised
              THEN /\ pc' = HandlerError(r.err).pc
                   /\ err' = HandlerError(r.err).err
                   /\ UNCHANGED <<heap, execution_path, current_node_id, exit_calls>>
              ELSE /\ heap' = [heap EXCEPT ![workflow_data] = r.bag]
                   /\ execution_path' = TrackPath(execution_path, current_node_id)
                   /\ exit_calls' = IF CurrentNode.type = "exit"
                                    THEN handler_calls + 1 ELSE exit_calls
                   /\ err' = ""
                   /\ IF ExitFlagSet(r.bag)
                      THEN pc' = "finishing" /\ UNCHANGED current_node_id
                      ELSE /\ current_node_id' = r.next
                           /\ pc' = IF IdTruthy(r.next) THEN "running" ELSE "finishing"
    /\ UNCHANGED <<commit_sha, document, tree_config, workflow_data,
                   call_snapshot, result, saved>>
    /\ UNCHANGED <<cacheVars, runVars>>

\* A plausible defect: the loop gives up after MaxSteps turns.
StepLimitReached ==
    /\ pc = "running"
    /\ handler_calls >= MaxSteps
    /\ pc' = "raised"
    /\ err' = "step_limit"
    /\ UNCHANGED <<commit_sha, document, tree_config, heap, workflow_data,
                   call_snapshot, execution_path, current_node_id, result,
                   saved, handler_calls, exit_calls, collab_calls>>
    /\ UNCHANGED <<cacheVars, runVars>>

\* The turns of the loop after the MaxSteps-th: the loop has no limit and the
\* handler runs as in HandlerStep; execution_path and handler_calls are no
\* longer recorded, so that a traversal that never ends has finitely many
\* states.
TurnBeyondBound ==
    /\ pc = "running"
    /\ handler_calls >= MaxSteps
    /\ current_node_id \in DOMAIN Nodes
    /\ CurrentNode.type \in RegisteredTypes
    /\ LET r == RunHandler(CurrentNode, heap[workflow_data])
       IN  IF r.raised
           THEN /\ pc' = HandlerError(r.err).pc
                /\ err' = HandlerError(r.err).err
                /\ UNCHANGED <<heap, current_node_id, exit_calls>>
           ELSE /\ heap' = [heap EXCEPT ![workflow_data] = r.bag]
                /\ exit_calls' = IF CurrentNode.type = "exit"
                                 THEN handler_calls ELSE exit_calls
                /\ err' = ""
                /\ IF ExitFlagSet(r.bag)
                   THEN pc' = "finishing" /\ UNCHANGED current_node_id
                   ELSE /\ current_node_id' = r.next
                        /\ pc' = IF IdTruthy(r.next) THEN "running" ELSE "finishing"
    /\ UNCHANGED <<commit_sha, document, tree_config, workflow_data,
                   call_snapshot, execution_path, result, saved,
                   handler_calls, collab_calls>>
    /\ UNCHANGED <<cacheVars, runVars>>

\* A plausible defect: the bag is returned with its internal keys.
prepare_final_output_unfiltered(bag) == bag

\* A plausible defect: the bytes values are dropped from the returned
\* final_output, as they are from the saved one.
prepare_final_output_without_bytes(bag) ==
    [k \in {x \in DOMAIN bag : ~StartsWithUnderscore(x) /\ bag[x].ty # "bytes"} |->
        bag[k]]

\* _prepare_final_output
prepare_final_output(bag) ==
    [k \in {x \in DOMAIN bag : ~StartsWithUnderscore(x)} |-> bag[k]]

\* Whether _save_results gets as far as writing the file: a call_id, a commit
\* SHA and a job_submission_datetime that datetime.fromisoformat parses.
SaveAccepts(bag, sha) ==
    /\ Truthy(Get(bag, "call_id"))
    /\ IdTruthy(sha)
    /\ Truthy(Get(bag, "job_submission_datetime"))
    /\ Get(bag, "job_submission_datetime").ty = "str"
    /\ Get(bag, "job_submission_datetime").val \in IsoStamps

\* What _save_results writes: the result, with the bytes values of its
\* final_output removed.
SavedForm(r) ==
    [r EXCEPT !.final_output =
        [k \in {x \in DOMAIN r.final_output : r.final_output[x].ty # "bytes"} |->
            r.final_output[k]]]

\* Whether json.dump accepts what _save_results hands it: the bytes values of
\* final_output are removed before, a status that is bytes is not.
JsonSerialisable(r) == r.status.ty # "bytes"

\* The file json.dump leaves when it raises: opened for writing, cut short at
\* the value it could not encode.
TruncatedFile == [truncated |-> TRUE]

\* execute, after the while loop: the result is built, saved and returned.
Finish ==
    /\ pc = "finishing"
    /\ LET bag == heap[workflow_data]
           r == [status |-> GetOr(bag, "_exit_status", PyStr("success")),
                 execution_path |-> execution_path,
                 final_output |-> prepare_final_output(bag)]
       IN  IF ~SaveAccepts(bag, commit_sha)
           THEN /\ pc' = "raised"
                /\ err' = "save_failed"
                /\ UNCHANGED <<saved, result>>
           ELSE IF ~JsonSerialisable(SavedForm(r))
           THEN /\ saved' = Append(saved, TruncatedFile)
                /\ pc' = "raised"
                /\ err' = "not_json_serialisable"
                /\ UNCHANGED result
           ELSE /\ saved' = Append(saved, SavedForm(r))
                /\ result' = <<r>>
                /\ pc' = "returned"
                /\ err' = ""
    /\ UNCHANGED <<commit_sha, document, tree_config, heap, workflow_data,
                   call_snapshot, execution_path, current_node_id,
                   handler_calls, exit_calls, collab_calls>>
    /\ UNCHANGED <<cacheVars, runVars>>

\* The arguments the constructor is called with: the deployed commit SHA on
\* every configuration; no commit SHA, or an empty one, on a few.
ConstructorInputs ==
    ({CommitSha} \X Documents)
    \cup ({NoneId, ""} \X {Doc(t) : t \in NamelessTrees \cup OddTrees})

Next ==
    \/ \E in \in ConstructorInputs : TreeExecutor(in[1], in[2])
    \/ \E bag \in InitialBags : ExecuteStart(bag)
    \/ RaiseUnknownNode
    \/ RaiseUnknownType
    \/ HandlerStep
    \/ Finish

Spec == Init /\ [][Next]_vars

\* The trees and bags of the specification with fairness: start nodes that
\* branch, write the flag, refer to an unknown id, have an unknown type or
\* exit.
LiveTrees ==
    {t \in Trees :
        /\ t.nodes["n3"] = ExitNode
        /\ \/ t.nodes["n1"].type \in {"condition", "exit", "archive"}
           \/ t.nodes["n1"] = LinearNode("sql", NoneId, "flag", "n2")
           \/ t.nodes["n1"] = LinearNode("sql", NoneId, NoneId, "nX")}

LiveBags ==
    {b \in InitialBags :
        DOMAIN b \subseteq {"call_id", "job_submission_datetime", "flag"}}

\* One step of execute once it is called.
ExecuteProgress ==
    RaiseUnknownNode \/ RaiseUnknownType \/ HandlerStep \/ TurnBeyondBound \/ Finish

LiveNext ==
    \/ \E tree \in LiveTrees : TreeExecutor(CommitSha, Doc(tree))
    \/ \E bag \in LiveBags : ExecuteStart(bag)
    \/ RaiseUnknownNode
    \/ RaiseUnknownType
    \/ HandlerStep
    \/ TurnBeyondBound
    \/ Finish

\* execute is one synchronous call chain: once called, each of its steps
\* follows the one before.
LiveSpec == Init /\ [][LiveNext]_vars /\ WF_vars(ExecuteProgress)

(* ---------------------------------------------------------------------- *)
(* Properties                                                              *)
(* ---------------------------------------------------------------------- *)

\* The last id of a path.
LastOf(path) == path[Len(path)]

\* The status an exit node asks for.
ConfiguredStatus(node) == IF node.has_status THEN node.status ELSE PyStr("success")

\* C1: once an exit node's handler has run, the traversal has stopped at that
\* node: the loop is left, the exit node's id is the last element of
\* execution_path, no handler has been invoked since, and a returned result
\* carries the exit node's configured status ("success" when it configures
\* none).
C1_ExitStopsTraversal ==
    exit_calls > 0 =>
        /\ pc \in {"finishing", "returned", "raised"}
        /\ handler_calls = exit_calls
        /\ current_node_id \in DOMAIN Nodes
        /\ CurrentNode.type = "exit"
        /\ Len(execution_path) = exit_calls
        /\ LastOf(execution_path) = current_node_id
        /\ pc = "raised" => err \in {"save_failed", "not_json_serialisable"}
        /\ pc = "returned" =>
              /\ result[1].status = ConfiguredStatus(CurrentNode)
              /\ LastOf(result[1].execution_path) = current_node_id

\* C1 witness: a result returned from an exit node reached after another
\* node, with the status "done" the exit node configures.
C1_Witness ==
    /\ pc = "returned"
    /\ exit_calls = 2
    /\ CurrentNode.has_status
    /\ result[1].status = PyStr("done")

\* C2: at a dead end (the last handler returned no next node, no exit node
\* ran) execute returns, and with the status "success"; stated for the bags
\* whose result the persistence step accepts.
C2_DeadEndIsSuccess ==
    (/\ exit_calls = 0
     /\ handler_calls > 0
     /\ ~IdTruthy(current_node_id)
     /\ pc \in {"returned", "raised"}
     /\ SaveAccepts(heap[workflow_data], commit_sha))
    => (pc = "returned" /\ result[1].status = PyStr("success"))

\* Whether the traversal that is at node id with the given bag comes back to
\* a node with the bag it had there before, having met no exit, dead end or
\* error on the way: a cycle it never leaves.
RECURSIVE EntersEndlessCycle(_, _, _, _)
EntersEndlessCycle(nodes, id, bag, seen) ==
    IF ~IdTruthy(id) \/ id \notin DOMAIN nodes THEN FALSE
    ELSE IF nodes[id].type \notin RegisteredTypes THEN FALSE
    ELSE IF <<id, bag>> \in seen THEN TRUE
    ELSE LET r == RunHandler(nodes[id], bag)
         IN  IF r.raised \/ ExitFlagSet(r.bag) THEN FALSE
             ELSE EntersEndlessCycle(nodes, r.next, r.bag, seen \cup {<<id, bag>>})

Cycling ==
    pc = "running" /\ EntersEndlessCycle(Nodes, current_node_id, heap[workflow_data], {})

Escaping ==
    pc = "running" /\ ~EntersEndlessCycle(Nodes, current_node_id, heap[workflow_data], {})

\* C3: execute terminates (returns or raises) exactly when the traversal does
\* not enter a cycle it never leaves: a traversal that enters such a cycle
\* stays in the loop forever, with no visited-node tracking or step limit to
\* end it, and every other traversal leads to a return or a raise.
C3_TerminatesIffNoEndlessCycle ==
    /\ [](Cycling => [](pc = "running"))
    /\ (Escaping ~> (pc \in {"returned", "raised"}))

\* C3 witness: a traversal still in the loop after MaxSteps handler
\* invocations, back at a node it has visited before.
C3_Witness ==
    /\ Cycling
    /\ handler_calls = MaxSteps
    /\ execution_path[1] = current_node_id

\* C4: a returned execution_path starts with start_node and is as long as
\* the number of handler invocations of the execution.
C4_PathCountsHandlers ==
    pc = "returned" =>
        /\ Len(result[1].execution_path) >= 1
        /\ result[1].execution_path[1] = tree_config.start_node
        /\ Len(result[1].execution_path) = handler_calls

\* C4 witness: a result whose path visits a node twice (n1, n2, n1, n3).
C4_Witness ==
    /\ pc = "returned"
    /\ Len(result[1].execution_path) = 4
    /\ result[1].execution_path[1] = result[1].execution_path[3]

\* Whether the loop is about to run the handler of a condition node, on a bag
\* whose exit flag is not set.
AtConditionNode ==
    /\ pc = "running"
    /\ handler_calls < MaxSteps
    /\ current_node_id \in DOMAIN Nodes
    /\ CurrentNode.type = "condition"
    /\ ~ExitFlagSet(heap[workflow_data])

\* C5: a condition node moves the traversal to true_node exactly when the
\* bag holds condition_key with a value of the same type and value as
\* condition_value, and to false_node in every other case.
C5_ExactEqualityRouting ==
    [][AtConditionNode =>
          current_node_id' =
              IF /\ CurrentNode.condition_key \in DOMAIN heap[workflow_data]
                 /\ heap[workflow_data][CurrentNode.condition_key]
                        = CurrentNode.condition_value
              THEN CurrentNode.true_node
              ELSE CurrentNode.false_node]_vars

\* C6: a condition node never raises, and with condition_key absent from the
\* bag it moves the traversal to false_node, whatever its configuration.
C6_AbsentKeyRoutesFalse ==
    [][AtConditionNode =>
          /\ pc' # "raised"
          /\ CurrentNode.condition_key \notin DOMAIN heap[workflow_data]
                => current_node_id' = CurrentNode.false_node]_vars

\* C7: at an id the node map lacks, execute raises the unknown-node error
\* with no handler invoked for the id, nothing appended to the path, no
\* result returned and none saved.
C7_UnknownNodeAborts ==
    [][(pc = "running" /\ current_node_id \notin DOMAIN Nodes) =>
          /\ pc' = "raised"
          /\ err' = "node_not_found"
          /\ handler_calls' = handler_calls
          /\ execution_path' = execution_path
          /\ result' = <<>>
          /\ saved' = saved]_vars

\* C7 witness: the unknown-node error raised for an id a handler returned.
C7_Witness ==
    /\ pc = "raised"
    /\ err = "node_not_found"
    /\ handler_calls >= 1
    /\ result = <<>>

\* C8: references are validated lazily. The load rejects a tree only for a
\* missing start_node or missing nodes, never for a reference to an unknown
\* id; execute raises the unknown-node error only at an unknown id the
\* traversal has actually moved to (start_node, or a reference of the node
\* visited last); and a traversal that has left the loop, or returned, on a
\* tree with such a reference has met no unknown-node error.
C8_LazyReferenceValidation ==
    /\ pc = "load_failed" =>
          (~IdTruthy(tree_config.start_node) \/ DOMAIN tree_config.nodes = {})
    /\ err = "node_not_found" =>
          /\ pc = "raised"
          /\ current_node_id \notin DOMAIN Nodes
          /\ IF execution_path = <<>>
             THEN current_node_id = tree_config.start_node
             ELSE current_node_id \in References(Nodes[LastOf(execution_path)])
    /\ (pc \in {"finishing", "returned"} /\ HasDanglingReference(tree_config)) =>
          /\ err = ""
          /\ \A i \in 1..Len(execution_path) : execution_path[i] \in DOMAIN Nodes

\* C8 witness: a result returned on a tree whose start node is a condition
\* node with true_node nX, an id the node map lacks; the false branch was
\* taken.
C8_Witness ==
    /\ pc = "returned"
    /\ Nodes[tree_config.start_node].type = "condition"
    /\ Nodes[tree_config.start_node].true_node = "nX"
    /\ "nX" \notin DOMAIN Nodes
    /\ Len(result[1].execution_path) >= 2

\* C9: the final_output of a returned result holds no key beginning with
\* "_" and every other key of the final bag, with its final value.
C9_FinalOutputStripsInternalKeys ==
    pc = "returned" =>
        LET out == result[1].final_output
            bag == heap[workflow_data]
        IN  /\ \A k \in DOMAIN out : SubSeq(k, 1, 1) # "_"
            /\ \A k \in DOMAIN bag :
                  SubSeq(k, 1, 1) # "_" => (k \in DOMAIN out /\ out[k] = bag[k])
            /\ DOMAIN out \subseteq DOMAIN bag

\* C9 witness: a result returned from a bag holding the exit markers and a
\* value a handler wrote under flag.
C9_Witness ==
    /\ pc = "returned"
    /\ {"_exit", "_exit_status", "flag"} \subseteq DOMAIN heap[workflow_data]
    /\ "flag" \in DOMAIN result[1].final_output
    /\ heap[workflow_data]["flag"] # GetOr(call_snapshot, "flag", PyNone)

\* C10: from the call of execute on, whether it is running, has returned or
\* has raised, the caller's map holds the keys and values it was passed with.
C10_CallerMapUntouched ==
    pc \in {"running", "finishing", "returned", "raised"} =>
        heap["caller"] = call_snapshot

\* C10 witness: execute has returned after its handlers changed the bag.
C10_Witness ==
    /\ pc = "returned"
    /\ heap[workflow_data] # call_snapshot
    /\ "flag" \in DOMAIN heap[workflow_data]
    /\ heap[workflow_data]["flag"] # GetOr(call_snapshot, "flag", PyNone)

\* The exceptions the handlers and their collaborators raise.
HandlerErrors ==
    {"stt_input_key", "stt_missing_input", "NameError",
     "deidentify_missing_input", "llm_missing_prompt", "llm_missing_input",
     "TypeError", "AttributeError"}

\* C11: a handler that was invoked and did not return has raised, and then
\* execute has raised that error to its caller: it was the last handler
\* invoked, no result is returned and no result file is written.
C11_HandlerErrorPropagates ==
    handler_calls > Len(execution_path) =>
        /\ pc = "raised"
        /\ err \in HandlerErrors
        /\ handler_calls = Len(execution_path) + 1
        /\ result = <<>>
        /\ saved = <<>>

\* The handler of the third node visited has raised.
C11_Witness ==
    /\ pc = "raised"
    /\ err \in HandlerErrors
    /\ handler_calls = 3
    /\ Len(execution_path) = 2

\* Whether a tree lacks start_node, or lacks nodes or holds an empty node map.
LacksStartOrNodes(tree) == ~IdTruthy(tree.start_node) \/ DOMAIN tree.nodes = {}

\* C12: once a document has been read, the load has failed with a structural
\* error if the document's tree lacks start_node or lacks nodes (missing or
\* empty), and otherwise it has succeeded and the executor's graph is the
\* document's tree.
C12_LoadValidatesStartAndNodes ==
    (pc \notin {"new", "init_failed"} /\ document.readable) =>
        IF LacksStartOrNodes(TreeOf(document))
        THEN pc = "load_failed" /\ err \in {"no_start_node", "no_nodes"}
        ELSE pc # "load_failed" /\ tree_config = TreeOf(document)

\* A load has failed on a document whose tree names a start node and holds an
\* empty node map.
C12_Witness ==
    /\ pc = "load_failed"
    /\ err = "no_nodes"
    /\ document.readable
    /\ TreeOf(document).start_node = "n1"

(* ---------------------------------------------------------------------- *)
(* load_tree_config on an executor that holds a graph                      *)
(* ---------------------------------------------------------------------- *)

\* load_tree_config called again on a loaded executor, its exception caught
\* by the caller: the executor lives on with what the load left in it.
Reload(config) ==
    /\ pc = "loaded"
    /\ LoadTreeConfig(config)
    /\ pc' = "loaded"
    /\ UNCHANGED <<commit_sha, heap, workflow_data, call_snapshot,
                   execution_path, current_node_id, result, saved,
                   handler_calls, exit_calls, collab_calls>>
    /\ UNCHANGED <<cacheVars, runVars>>

\* The configurations the path or URL yields at the second load.
ReloadDocuments ==
    {Doc(t) : t \in OddTrees \cup NamelessTrees} \cup {NoTreeDoc, UnreadableDoc}

ReloadNext ==
    \/ \E tree \in LiveTrees : TreeExecutor(CommitSha, Doc(tree))
    \/ \E config \in ReloadDocuments : Reload(config)
    \/ \E bag \in LiveBags : ExecuteStart(bag)
    \/ RaiseUnknownNode
    \/ RaiseUnknownType
    \/ HandlerStep
    \/ Finish

ReloadSpec == Init /\ [][ReloadNext]_vars

\* C13: a load_tree_config that fails on an executor holding a valid graph
\* leaves the executor's graph as it was.
C13_FailedLoadKeepsGraph ==
    [][(pc = "loaded" /\ pc' = "loaded" /\ err' # "") =>
          tree_config' = tree_config]_vars

(* ---------------------------------------------------------------------- *)
(* Properties of the constructor, the load and the handlers                *)
(* ---------------------------------------------------------------------- *)

\* A plausible defect: the name is looked up under the key "tree_name", which
\* no tree holds.
get_tree_structure_wrong_key(tree) ==
    [tree_name |-> "Unknown",
     start_node |-> tree.start_node,
     nodes |-> tree.nodes]

\* get_tree_structure on self.tree_config.
get_tree_structure(tree) ==
    [tree_name |-> IF tree.name = NoneId THEN "Unknown" ELSE tree.name,
     start_node |-> tree.start_node,
     nodes |-> tree.nodes]

\* An executor exists and its load has succeeded.
Loaded == pc \in {"loaded", "running", "finishing", "returned", "raised"}

\* C14 as stated: after a successful load, and whatever execute has done
\* since, get_tree_structure returns the name, the start_node and the node
\* map of the loaded document.
C14_RoundTrip ==
    Loaded =>
        /\ get_tree_structure(tree_config).tree_name = TreeOf(document).name
        /\ get_tree_structure(tree_config).start_node = TreeOf(document).start_node
        /\ get_tree_structure(tree_config).nodes = TreeOf(document).nodes

\* C14, amended: after a successful load, and whatever execute has done
\* since, get_tree_structure returns the start_node and the node map of the
\* loaded document, and as tree_name its name when it has one and "Unknown"
\* when it has none.
C14_RoundTripNamed ==
    Loaded =>
        /\ get_tree_structure(tree_config).tree_name =
              IF TreeOf(document).name = NoneId
              THEN "Unknown" ELSE TreeOf(document).name
        /\ get_tree_structure(tree_config).start_node = TreeOf(document).start_node
        /\ get_tree_structure(tree_config).nodes = TreeOf(document).nodes

\* An execute has returned on an executor loaded from a document whose tree
\* has no name.
C14_Witness ==
    /\ pc = "returned"
    /\ TreeOf(document).name = NoneId
    /\ get_tree_structure(tree_config).tree_name = "Unknown"
    /\ get_tree_structure(tree_config).nodes = TreeOf(document).nodes

\* Scenario A: the start node n1 of the executor's graph is an exit node with
\* status "done".
ScenarioA ==
    /\ Loaded
    /\ tree_config.start_node = "n1"
    /\ "n1" \in DOMAIN tree_config.nodes
    /\ tree_config.nodes["n1"] = ExitNodeWith(PyStr("done"))

\* execute has been called and is over.
ExecuteOver == pc \in {"returned", "raised"}

\* The bag the caller passed, without the keys that start with an underscore.
PublicPart(bag) ==
    [k \in {x \in DOMAIN bag : SubSeq(x, 1, 1) # "_"} |-> bag[k]]

\* The result of scenario A for the bag the caller passed.
ScenarioAResult ==
    /\ pc = "returned"
    /\ result[1].status = PyStr("done")
    /\ result[1].execution_path = <<"n1">>
    /\ result[1].final_output = PublicPart(call_snapshot)

C16_ExecutorWithoutCommitSha ==
    (pc # "new" /\ commit_sha = NoneId) => Loaded

C18_CallIdRequired ==
    (/\ pc \in {"running", "finishing", "returned", "raised"}
     /\ \/ "call_id" \notin DOMAIN call_snapshot
        \/ call_snapshot["call_id"] = PyStr(""))
    => /\ pc = "raised"
       /\ err = "call_id_required"
       /\ handler_calls = 0
       /\ execution_path = <<>>
       /\ result = <<>>
       /\ saved = <<>>

\* execute has raised for a bag whose call_id is the empty string.
C18_Witness ==
    /\ pc = "raised"
    /\ err = "call_id_required"
    /\ "call_id" \in DOMAIN call_snapshot
    /\ call_snapshot["call_id"] = PyStr("")

\* The types of the linear nodes.
LinearTypes == {"stt", "sql", "deidentify", "llm"}

\* Whether two bags hold the same entries at every key outside the given set.
SameOutside(keys, old, new) ==
    \A k \in (DOMAIN old \cup DOMAIN new) \ keys :
        k \in DOMAIN old /\ k \in DOMAIN new /\ old[k] = new[k]

\* C19: over one handler invocation, a linear handler changes at most the
\* entry of the bag at its output_key, and with no output_key it changes
\* nothing while its collaborator is called whenever it completes; a condition
\* handler changes nothing; an exit handler changes at most the entries _exit
\* and _exit_status.
C19_HandlerFrame ==
    [][handler_calls' = handler_calls + 1 =>
         LET node == CurrentNode
             old == heap[workflow_data]
             new == heap'[workflow_data]
         IN  /\ node.type \in LinearTypes =>
                  /\ SameOutside({node.output_key}, old, new)
                  /\ ~IdTruthy(node.output_key) =>
                        /\ new = old
                        /\ pc' # "raised" => collab_calls' = collab_calls + 1
             /\ node.type = "condition" => new = old
             /\ node.type = "exit" =>
                  SameOutside({"_exit", "_exit_status"}, old, new)]_vars

\* A sql node with no output_key has completed: its collaborator was called
\* and the bag is as the caller passed it.
C19_Witness ==
    /\ Loaded
    /\ execution_path = <<"n1">>
    /\ tree_config.nodes["n1"] = LinearNode("sql", NoneId, NoneId, NoneId)
    /\ collab_calls = 1
    /\ heap[workflow_data] = call_snapshot

\* C20: when the handler of a linear node completes, the traversal moves to
\* the node's next_node, and it ends when the node has none.
C20_LinearNodeMovesToNextNode ==
    [][(/\ handler_calls' = handler_calls + 1
        /\ CurrentNode.type \in LinearTypes
        /\ pc' # "raised")
       => IF IdTruthy(CurrentNode.next_node)
          THEN pc' = "running" /\ current_node_id' = CurrentNode.next_node
          ELSE pc' = "finishing"]_vars

(* ---------------------------------------------------------------------- *)
(* Properties of the final output and of the handlers' errors              *)
(* ---------------------------------------------------------------------- *)

\* The output_keys of the nodes on the path.
VisitedOutputKeys ==
    {tree_config.nodes[execution_path[i]].output_key : i \in 1..Len(execution_path)}

\* C21: in every returned result, each key of the caller's bag that does not
\* start with an underscore and is the output_key of no visited node is in
\* final_output with the value the caller gave it.
C21_UntouchedKeysSurvive ==
    pc = "returned" =>
        \A k \in DOMAIN call_snapshot :
            (SubSeq(k, 1, 1) # "_" /\ k \notin VisitedOutputKeys) =>
                /\ k \in DOMAIN result[1].final_output
                /\ result[1].final_output[k] = call_snapshot[k]

\* A traversal of two nodes or more, one of which wrote the flag, has
\* returned for a bag that held an audio payload and a flag.
C21_Witness ==
    /\ pc = "returned"
    /\ Len(execution_path) >= 2
    /\ "flag" \in VisitedOutputKeys
    /\ {"audio_file", "flag", "call_id"} \subseteq DOMAIN call_snapshot
    /\ result[1].final_output["audio_file"] = call_snapshot["audio_file"]

\* C22: one turn of the loop at an llm node with no prompt raises the
\* handler's error whatever the bag holds, without a call of the inference
\* collaborator and without a result.
C22_LlmWithoutPromptRaises ==
    [][(/\ pc = "running"
        /\ handler_calls < MaxSteps
        /\ current_node_id \in DOMAIN Nodes
        /\ CurrentNode.type = "llm"
        /\ ~IdTruthy(CurrentNode.prompt))
       => /\ pc' = "raised"
          /\ err' = "llm_missing_prompt"
          /\ collab_calls' = collab_calls
          /\ result' = <<>>
          /\ saved' = saved]_vars

\* An llm node with no prompt has raised on a bag that holds its input text.
C22_Witness ==
    /\ pc = "raised"
    /\ err = "llm_missing_prompt"
    /\ collab_calls = 0
    /\ "flag" \in DOMAIN heap[workflow_data]
    /\ heap[workflow_data]["flag"] = PyStr("t_visit")
    /\ CurrentNode.input_key = "flag"

\* C23: one turn of the loop at an sql node never raises, and the record it
\* writes at its output_key is the record of the bag's call identifier when
\* the store holds one and the default record otherwise.
C23_SqlAlwaysSucceeds ==
    [][(/\ pc = "running"
        /\ handler_calls < MaxSteps
        /\ current_node_id \in DOMAIN Nodes
        /\ CurrentNode.type = "sql")
       => /\ pc' # "raised"
          /\ IdTruthy(CurrentNode.output_key) =>
                heap'[workflow_data][CurrentNode.output_key] =
                    IF Get(heap[workflow_data], "call_id") = PyStr("call_123")
                    THEN PyDict("call_123") ELSE PyDict("default")]_vars

\* C24: one turn of the loop at an stt node raises if and only if the node's
\* input_key is not "audio_file" or the bag has no key "audio_file".
C24_SttRaisesIffInputMissing ==
    [][(/\ pc = "running"
        /\ handler_calls < MaxSteps
        /\ current_node_id \in DOMAIN Nodes
        /\ CurrentNode.type = "stt")
       => (pc' = "raised" <=>
              \/ CurrentNode.input_key # "audio_file"
              \/ "audio_file" \notin DOMAIN heap[workflow_data])]_vars

(* ---------------------------------------------------------------------- *)
(* A handler called on its own                                             *)
(* ---------------------------------------------------------------------- *)

\* The node_config a handler is called with.
HandlerNodes ==
    {LinearNode(type, input_key, output_key, "n2") :
        type \in {"stt", "deidentify", "llm"},
        input_key \in {"audio_file", "flag", NoneId},
        output_key \in {"flag", NoneId}}
    \cup {[LinearNode("llm", "flag", "flag", "n2") EXCEPT !.prompt = p] :
            p \in {NoneId, ""}}
    \cup {LinearNode("sql", NoneId, output_key, "n2") : output_key \in {"flag", NoneId}}
    \cup {ConditionNode("flag", PyStr("yes"), "n2", "n3"), ExitNode}

\* The workflow_data a handler is called with.
HandlerBags ==
    {BagOf(c \cup f \cup a) :
        c \in Opt("call_id", {PyStr("1"), PyStr("call_123"), PyDict("default")}),
        f \in Opt("flag", {PyNone, PyStr(""), PyStr("yes"), PyStr("t_visit"),
                           PyTrue, PyDict("default")}),
        a \in Opt("audio_file", {PyBytes(""), PyBytes("a")})}

\* get_node_handler(type) is about to be called on a node_config, held as the
\* node n1, and a dict.
HandlerInit ==
    \E node \in HandlerNodes, bag \in HandlerBags :
        /\ pc = "handler"
        /\ err = ""
        /\ commit_sha = NoneId
        /\ document = NoDocument
        /\ tree_config = [name |-> NoneId, start_node |-> "n1", nodes |-> ("n1" :> node)]
        /\ heap = [r \in {"caller", "copy"} |-> IF r = "caller" THEN bag ELSE <<>>]
        /\ workflow_data = "caller"
        /\ call_snapshot = bag
        /\ execution_path = <<>>
        /\ current_node_id = "n1"
        /\ result = <<>>
        /\ saved = <<>>
        /\ handler_calls = 0
        /\ exit_calls = 0
        /\ collab_calls = 0
        /\ CacheInit
        /\ RunsInit

\* The handler runs on the dict and returns the next node id, or raises.
InvokeHandler ==
    /\ pc = "handler"
    /\ LET r == RunHandler(CurrentNode, heap[workflow_data])
       IN  /\ handler_calls' = handler_calls + 1
           /\ collab_calls' = IF r.called THEN collab_calls + 1 ELSE collab_calls
           /\ IF r.raised
              THEN /\ pc' = "handler_raised"
                   /\ err' = r.err
                   /\ UNCHANGED <<heap, current_node_id>>
              ELSE /\ pc' = "handler_returned"
                   /\ err' = ""
                   /\ heap' = [heap EXCEPT ![workflow_data] = r.bag]
                   /\ current_node_id' = r.next
    /\ UNCHANGED <<commit_sha, document, tree_config, workflow_data,
                   call_snapshot, execution_path, result, saved, exit_calls>>
    /\ UNCHANGED <<cacheVars, runVars>>

HandlerSpec == HandlerInit /\ [][InvokeHandler]_vars

\* Whether the bag has no value at the key, or None, or an empty text or
\* payload.
MissingOrFalsy(bag, key) ==
    key \notin DOMAIN bag \/ bag[key] \in {PyNone, PyStr(""), PyBytes("")}

\* C25: a deidentify or llm handler raises whenever the bag's value at the
\* node's input_key is missing or falsy, an input_key that is not configured
\* included.
C25_MissingInputRaises ==
    [][(/\ pc = "handler"
        /\ CurrentNode.type \in {"deidentify", "llm"}
        /\ MissingOrFalsy(heap[workflow_data], CurrentNode.input_key))
       => /\ pc' = "handler_raised"
          /\ err' \in {"deidentify_missing_input", "llm_missing_input",
                       "llm_missing_prompt"}]_vars

\* An llm handler with a prompt has raised on a bag whose input is the empty
\* text.
C25_Witness ==
    /\ pc = "handler_raised"
    /\ err = "llm_missing_input"
    /\ CurrentNode.input_key = "flag"
    /\ "flag" \in DOMAIN heap[workflow_data]
    /\ heap[workflow_data]["flag"] = PyStr("")

\* Whether the handler of the node finds its input missing or malformed in
\* the bag: the stt sentinel or payload, the deidentify or llm text, the llm
\* prompt.
InputError(node, bag) ==
    CASE node.type = "stt" ->
           node.input_key # "audio_file" \/ "audio_file" \notin DOMAIN bag
      [] node.type = "deidentify" -> MissingOrFalsy(bag, node.input_key)
      [] node.type = "llm" ->
           node.prompt \in {NoneId, ""} \/ MissingOrFalsy(bag, node.input_key)
      [] OTHER -> FALSE

\* C26: when an stt, deidentify or llm handler is called on a missing or
\* malformed input, it raises without having called its collaborator and
\* leaves the bag as it was.
C26_InputErrorBeforeCollaborator ==
    [][(pc = "handler" /\ InputError(CurrentNode, heap[workflow_data]))
       => /\ pc' = "handler_raised"
          /\ collab_calls' = collab_calls
          /\ heap' = heap]_vars

\* A deidentify handler has raised on an empty text without a collaborator
\* call.
C26_Witness ==
    /\ pc = "handler_raised"
    /\ CurrentNode.type = "deidentify"
    /\ CurrentNode.input_key = "flag"
    /\ "flag" \in DOMAIN heap[workflow_data]
    /\ heap[workflow_data]["flag"] = PyStr("")
    /\ collab_calls = 0
    /\ heap[workflow_data] = call_snapshot

\* C27: one turn of the loop at a node whose type is missing or is not one of
\* the six registered types raises: no handler and no collaborator runs, the
\* node is not appended to the path and no result is returned or saved.
C27_UnknownTypeFailsFast ==
    [][(/\ pc = "running"
        /\ current_node_id \in DOMAIN Nodes
        /\ CurrentNode.type \notin
              {"stt", "sql", "deidentify", "llm", "condition", "exit"})
       => /\ pc' = "raised"
          /\ err' = "unknown_node_type"
          /\ handler_calls' = handler_calls
          /\ collab_calls' = collab_calls
          /\ execution_path' = execution_path
          /\ heap' = heap
          /\ result' = <<>>
          /\ saved' = saved]_vars

\* The second node visited has no type: execute has raised with the first
\* node alone on the path.
C27_Witness ==
    /\ pc = "raised"
    /\ err = "unknown_node_type"
    /\ current_node_id = "n2"
    /\ CurrentNode.type = NoneId
    /\ execution_path = <<"n1">>
    /\ handler_calls = 1

\* C28: no result is returned for a traversal that reached a node lacking a
\* field its type requires: a condition node without true_node or false_node,
\* a linear node without output_key.
C28_MissingConfigFieldIsFatal ==
    pc = "returned" =>
        \A i \in 1..Len(execution_path) :
            LET node == tree_config.nodes[execution_path[i]]
            IN  /\ node.type = "condition" =>
                      IdTruthy(node.true_node) /\ IdTruthy(node.false_node)
                /\ node.type \in LinearTypes => IdTruthy(node.output_key)

(* ---------------------------------------------------------------------- *)
(* GitHubConfigCache (github_client.py)                                    *)
(* ---------------------------------------------------------------------- *)

\* The most documents the model lets be fetched for one cache key.
MaxFetches == 3

\* The state of the executor, which get_config leaves alone.
execVars == <<pc, err, commit_sha, document, tree_config, heap, workflow_data,
              call_snapshot, execution_path, current_node_id, result, saved,
              handler_calls, exit_calls, collab_calls>>

\* What the raw URL of a cache key may serve: the file of a commit is fixed,
\* the file of the main branch is the one of the moment.
RemoteOf(key) ==
    IF key = "latest" THEN {Doc(t) : t \in NamelessTrees}
    ELSE {Doc(t) : t \in {x \in NamelessTrees : x.nodes["n1"] = ExitNode}}

\* A plausible defect: get_config fetches whether or not the key is cached.
GetConfigAlwaysFetching(t, sha) ==
    /\ get_calls[t].pc = "idle"
    /\ get_calls' = [get_calls EXCEPT ![t] =
                        [pc |-> "fetching", key |-> CacheKey(sha), got |-> <<>>]]
    /\ UNCHANGED <<cache, fetch_count, execVars, runVars>>

\* get_config, up to its return from the cache or its call of
\* _fetch_yaml_from_github.
GetConfig(t, sha) ==
    /\ get_calls[t].pc = "idle"
    /\ get_calls' =
          [get_calls EXCEPT ![t] =
              IF CacheKey(sha) \in DOMAIN cache
              THEN [pc |-> "returned", key |-> CacheKey(sha),
                    got |-> <<cache[CacheKey(sha)]>>]
              ELSE [pc |-> "fetching", key |-> CacheKey(sha), got |-> <<>>]]
    /\ UNCHANGED <<cache, fetch_count, execVars, runVars>>

\* _fetch_yaml_from_github: requests.get answers and the YAML parses.
FetchResponse(t) ==
    /\ get_calls[t].pc = "fetching"
    /\ fetch_count[get_calls[t].key] < MaxFetches
    /\ \E config \in RemoteOf(get_calls[t].key) :
          get_calls' = [get_calls EXCEPT ![t].pc = "storing", ![t].got = <<config>>]
    /\ fetch_count' = [fetch_count EXCEPT ![get_calls[t].key] = @ + 1]
    /\ UNCHANGED <<cache, execVars, runVars>>

\* _fetch_yaml_from_github: the request or the parse fails, ValueError.
FetchFails(t) ==
    /\ get_calls[t].pc = "fetching"
    /\ get_calls' = [get_calls EXCEPT ![t].pc = "raised"]
    /\ UNCHANGED <<cache, fetch_count, execVars, runVars>>

\* _fetch_yaml_from_github: self._cache[cache_key] = config; return config.
Store(t) ==
    /\ get_calls[t].pc = "storing"
    /\ cache' = (get_calls[t].key :> get_calls[t].got[1]) @@ cache
    /\ get_calls' = [get_calls EXCEPT ![t].pc = "returned"]
    /\ UNCHANGED <<fetch_count, execVars, runVars>>

\* The caller of get_config goes on with what it got.
CallerGoesOn(t) ==
    /\ get_calls[t].pc \in {"returned", "raised"}
    /\ get_calls' = [get_calls EXCEPT ![t] = IdleCall]
    /\ UNCHANGED <<cache, fetch_count, execVars, runVars>>

CacheNext ==
    \E t \in Threads :
        \/ \E sha \in {CommitSha, NoneId} : GetConfig(t, sha)
        \/ FetchResponse(t)
        \/ FetchFails(t)
        \/ Store(t)
        \/ CallerGoesOn(t)

CacheSpec == Init /\ [][CacheNext]_vars

\* C29: however the calls of get_config interleave, no cache key is fetched
\* more than once, and a call that returns returns the entry the cache holds
\* for its key.
C29_AtMostOneFetchPerKey ==
    /\ \A k \in CacheKeys : fetch_count[k] <= 1
    /\ \A t \in Threads :
          get_calls[t].pc = "returned" =>
              /\ get_calls[t].key \in DOMAIN cache
              /\ get_calls[t].got = <<cache[get_calls[t].key]>>


(* ---------------------------------------------------------------------- *)
(* Overlapping calls of execute on one loaded graph                        *)
(* ---------------------------------------------------------------------- *)

\* The graphs the overlapping calls run on: the start node branches on the
\* flag, rewrites it, or exits; no node refers back.
ConcurrentTrees ==
    {t \in Trees :
        /\ t.nodes["n1"] \in {ConditionNode("flag", PyStr("yes"), "n3", "n2"),
                              LinearNode("llm", "flag", "flag", "n2"),
                              LinearNode("deidentify", "flag", "flag", "n2"),
                              LinearNode("sql", NoneId, "flag", "n2"),
                              ExitNodeWith(PyStr("done"))}
        /\ t.nodes["n2"] \in {ExitNodeWith(PyStr("done")),
                              LinearNode("sql", NoneId, NoneId, "n3")}
        /\ t.nodes["n3"] = ExitNode}

\* The maps the callers of the overlapping calls pass.
RunBags == LiveBags

\* An executor constructed and loaded on one of the graphs, no call of
\* execute yet.
LoadedExecutor(tree) ==
    /\ pc = "loaded"
    /\ err = ""
    /\ commit_sha = CommitSha
    /\ document = Doc(tree)
    /\ tree_config = tree
    /\ heap = [r \in {"caller", "copy"} |-> <<>>]
    /\ workflow_data = "none"
    /\ call_snapshot = <<>>
    /\ execution_path = <<>>
    /\ current_node_id = NoneId
    /\ result = <<>>
    /\ saved = <<>>
    /\ handler_calls = 0
    /\ exit_calls = 0
    /\ collab_calls = 0
    /\ CacheInit
    /\ RunsInit

ConcurrentInit == \E tree \in ConcurrentTrees : LoadedExecutor(tree)

\* Whether a thread is inside execute.
InExecute(t) == runs[t].pc \in {"running", "finishing"}

\* A plausible defect: workflow_data is kept on the executor, one dict for
\* every call.
WorkflowDataOnSelf(t) == <<"copy", "t1">>

\* The dict a call of execute works on: workflow_data is a local name bound
\* to initial_workflow_data.copy(), a new dict for each call.
WorkflowDataOf(t) == <<"copy", t>>

\* execute, up to the while loop, called by thread t with the map bag.
RunStart(t, bag) ==
    /\ pc = "loaded"
    /\ runs[t].pc = "idle"
    /\ IF CallIdMissing(bag)
       THEN /\ runs' = [runs EXCEPT ![t] = [runs[t] EXCEPT !.pc = "raised",
                                                  !.bag0 = bag,
                                                  !.err = "call_id_required"]]
            /\ dicts' = [dicts EXCEPT ![<<"caller", t>>] = bag]
       ELSE /\ runs' = [u \in Threads |->
                          IF u = t
                          THEN [runs[t] EXCEPT
                                  !.pc = IF IdTruthy(tree_config.start_node)
                                         THEN "running" ELSE "finishing",
                                  !.ref = WorkflowDataOf(t),
                                  !.bag0 = bag,
                                  !.node = tree_config.start_node,
                                  !.overlapped = \E v \in Threads : InExecute(v)]
                          ELSE [runs[u] EXCEPT
                                  !.overlapped = @ \/ InExecute(u)]]
            /\ dicts' = [dicts EXCEPT ![<<"caller", t>>] = bag,
                                      ![WorkflowDataOf(t)] = bag]
    /\ UNCHANGED <<execVars, cacheVars>>

\* One turn of the while loop of thread t's call.
RunTurn(t) ==
    /\ runs[t].pc = "running"
    /\ LET id == runs[t].node
       IN  IF id \notin DOMAIN Nodes
           THEN /\ runs' = [runs EXCEPT ![t].pc = "raised",
                                        ![t].err = "node_not_found"]
                /\ UNCHANGED dicts
           ELSE IF Nodes[id].type \notin RegisteredTypes
           THEN /\ runs' = [runs EXCEPT ![t].pc = "raised",
                                        ![t].err = "unknown_type"]
                /\ UNCHANGED dicts
           ELSE LET r == RunHandler(Nodes[id], dicts[runs[t].ref])
                IN  IF r.raised
                    THEN /\ runs' = [runs EXCEPT ![t].pc = HandlerError(r.err).pc,
                                                 ![t].err = HandlerError(r.err).err]
                         /\ UNCHANGED dicts
                    ELSE /\ dicts' = [dicts EXCEPT ![runs[t].ref] = r.bag]
                         /\ runs' = [runs EXCEPT
                                       ![t].path = TrackPath(@, id),
                                       ![t].node = IF ExitFlagSet(r.bag)
                                                   THEN id ELSE r.next,
                                       ![t].pc = IF ExitFlagSet(r.bag) \/ ~IdTruthy(r.next)
                                                 THEN "finishing" ELSE "running"]
    /\ UNCHANGED <<execVars, cacheVars>>

\* The result a call builds from its dict and its path, or the failure of
\* _save_results.
Outcome(bag, path) ==
    LET r == [status |-> GetOr(bag, "_exit_status", PyStr("success")),
              execution_path |-> path,
              final_output |-> prepare_final_output(bag)]
    IN  IF SaveAccepts(bag, commit_sha) /\ JsonSerialisable(SavedForm(r))
        THEN [kind |-> "returned", result |-> <<r>>]
        ELSE [kind |-> "raised", result |-> <<>>]

\* A plausible defect: execute drops the graph once it has built its result.
RunFinishReleasingGraph(t) ==
    /\ runs[t].pc = "finishing"
    /\ LET o == Outcome(dicts[runs[t].ref], runs[t].path)
       IN  /\ runs' = [runs EXCEPT ![t].pc = o.kind,
                                   ![t].out = o.result,
                                   ![t].err = IF o.kind = "raised"
                                              THEN "save_failed" ELSE ""]
           /\ saved' = IF o.kind = "returned"
                       THEN Append(saved, SavedForm(o.result[1])) ELSE saved
    /\ tree_config' = EmptyTree
    /\ UNCHANGED dicts
    /\ UNCHANGED <<pc, err, commit_sha, document, heap,
                   workflow_data, call_snapshot, execution_path,
                   current_node_id, result, handler_calls, exit_calls,
                   collab_calls>>
    /\ UNCHANGED cacheVars

\* Thread t's call after the while loop: the result is built, saved and
\* returned.
RunFinish(t) ==
    /\ runs[t].pc = "finishing"
    /\ LET o == Outcome(dicts[runs[t].ref], runs[t].path)
       IN  /\ runs' = [runs EXCEPT ![t].pc = o.kind,
                                   ![t].out = o.result,
                                   ![t].err = IF o.kind = "raised"
                                              THEN "save_failed" ELSE ""]
           /\ saved' = IF o.kind = "returned"
                       THEN Append(saved, SavedForm(o.result[1]))
                       ELSE IF SaveAccepts(dicts[runs[t].ref], commit_sha)
                       THEN Append(saved, TruncatedFile) ELSE saved
    /\ UNCHANGED dicts
    /\ UNCHANGED <<pc, err, commit_sha, document, tree_config, heap,
                   workflow_data, call_snapshot, execution_path,
                   current_node_id, result, handler_calls, exit_calls,
                   collab_calls>>
    /\ UNCHANGED cacheVars

ConcurrentNext ==
    \/ \E t \in Threads, bag \in RunBags : RunStart(t, bag)
    \/ \E t \in Threads : RunTurn(t)
    \/ \E t \in Threads : RunFinish(t)

\* Two threads call execute on one executor; a turn of the loop touches the
\* call's own dict and the read-only graph, so that the turns are the steps
\* that interleave.
ConcurrentSpec == ConcurrentInit /\ [][ConcurrentNext]_vars

\* execute run alone on a graph from the node id on, with the dict bag and
\* the path so far: what it returns or that it raises.
RECURSIVE ExecuteAloneFrom(_, _, _, _)
ExecuteAloneFrom(tree, bag, id, path) ==
    IF ~IdTruthy(id) THEN Outcome(bag, path)
    ELSE IF Len(path) >= MaxSteps THEN [kind |-> "running", result |-> <<>>]
    ELSE IF id \notin DOMAIN tree.nodes THEN [kind |-> "raised", result |-> <<>>]
    ELSE IF tree.nodes[id].type \notin RegisteredTypes
    THEN [kind |-> "raised", result |-> <<>>]
    ELSE LET r == RunHandler(tree.nodes[id], bag)
         IN  IF r.raised THEN [kind |-> "raised", result |-> <<>>]
             ELSE IF ExitFlagSet(r.bag) THEN Outcome(r.bag, TrackPath(path, id))
             ELSE ExecuteAloneFrom(tree, r.bag, r.next, TrackPath(path, id))

\* execute run alone on a graph with an initial map.
ExecuteAlone(tree, bag) ==
    IF CallIdMissing(bag) THEN [kind |-> "raised", result |-> <<>>]
    ELSE ExecuteAloneFrom(tree, bag, tree.start_node, <<>>)

\* C30: for any interleaving of two calls of execute on one loaded graph,
\* each from its own initial map, a call that is over has returned the
\* status, execution_path and final_output it returns when run alone on its
\* map, or has raised where it raises alone; and the caller's map is as it
\* was passed.
C30_ConcurrentRunsAreIsolated ==
    \A t \in Threads :
        runs[t].pc \in {"returned", "raised"} =>
            /\ runs[t].pc = ExecuteAlone(tree_config, runs[t].bag0).kind
            /\ runs[t].out = ExecuteAlone(tree_config, runs[t].bag0).result
            /\ dicts[<<"caller", t>>] = runs[t].bag0

\* Two calls that overlapped have both returned, with different paths and
\* different final outputs.
C30_Witness ==
    /\ \A t \in Threads : runs[t].pc = "returned" /\ runs[t].overlapped
    /\ runs["t1"].out[1].execution_path # runs["t2"].out[1].execution_path
    /\ runs["t1"].out[1].final_output # runs["t2"].out[1].final_output
    /\ Len(runs["t1"].out[1].execution_path) >= 2


(* ---------------------------------------------------------------------- *)
(* Properties of the path, of the persistence and of the attempts           *)
(* ---------------------------------------------------------------------- *)

\* Whether the handler of a node can return no next node: an exit node, a
\* linear node without next_node, a condition node that lacks a branch.
CanEndTraversal(node) ==
    \/ node.type = "exit"
    \/ node.type \in LinearTypes /\ ~IdTruthy(node.next_node)
    \/ node.type = "condition"
       /\ (~IdTruthy(node.true_node) \/ ~IdTruthy(node.false_node))

\* C32: the last id of a returned execution_path is an exit node or a node
\* whose handler returned no next node, and the status of the result is the
\* one the exit node asks for, "success" after a dead end: no key of the
\* caller's bag and no output_key stops the traversal or sets the status.
C32_ExitFlagOwnedByExitNodes ==
    pc = "returned" =>
        /\ execution_path # <<>>
        /\ CanEndTraversal(Nodes[LastOf(execution_path)])
        /\ result[1].status =
              IF Nodes[LastOf(execution_path)].type = "exit"
              THEN ConfiguredStatus(Nodes[LastOf(execution_path)])
              ELSE PyStr("success")


\* The ids the handler of a node can return: next_node of a linear node,
\* true_node or false_node of a condition node.
Successors(node) ==
    IF node.type = "condition" THEN {node.true_node, node.false_node}
    ELSE IF node.type \in LinearTypes THEN {node.next_node}
    ELSE {}

\* C33: in every returned result, every id of execution_path is a key of the
\* node map, and each id after the first is the next_node of the linear node
\* before it, or the true_node or false_node of the condition node before it.
C33_PathIsWalk ==
    pc = "returned" =>
        LET path == result[1].execution_path
        IN  /\ \A i \in 1..Len(path) : path[i] \in DOMAIN Nodes
            /\ \A i \in 1..(Len(path) - 1) :
                   path[i + 1] \in Successors(Nodes[path[i]])

\* A result whose path took the false branch of a condition node, went
\* through a linear node back to the condition node, and then took the true
\* branch.
C33_Witness ==
    /\ pc = "returned"
    /\ result[1].execution_path = <<"n1", "n2", "n1", "n3">>
    /\ Nodes["n1"].type = "condition"
    /\ Nodes["n2"].type \in LinearTypes


C36_SingleAttempt ==
    /\ [](collab_calls <= handler_calls /\ handler_calls <= Len(execution_path) + 1)
    /\ [][/\ handler_calls' \in {handler_calls, handler_calls + 1}
          /\ collab_calls' \in {collab_calls, collab_calls + 1}
          /\ collab_calls' # collab_calls => handler_calls' # handler_calls
          /\ handler_calls' # handler_calls =>
                \/ pc' = "raised" /\ execution_path' = execution_path
                \/ Len(execution_path') = Len(execution_path) + 1
          /\ pc # "new" => document' = document
          /\ pc \in {"init_failed", "load_failed", "raised"} => UNCHANGED vars]_vars

\* The second handler invoked has raised after the first called its
\* collaborator: two invocations, one id on the path.
C36_Witness ==
    /\ pc = "raised"
    /\ err \in HandlerErrors
    /\ handler_calls = 2
    /\ collab_calls >= 1
    /\ Len(execution_path) = 1


(* ---------------------------------------------------------------------- *)
(* The configuration cache with clear_cache                                *)
(* ---------------------------------------------------------------------- *)

\* clear_cache: self._cache.clear()
ClearCache ==
    /\ cache # <<>>
    /\ cache' = <<>>
    /\ UNCHANGED <<fetch_count, get_calls, execVars, runVars>>

ClearNext == CacheNext \/ ClearCache

\* The calls of get_config and of clear_cache, in any order.
ClearSpec == Init /\ [][ClearNext]_vars

\* C35: a get_config that finds its key cached returns the cached document
\* without fetching; the document cached for a commit SHA stays the same
\* until clear_cache empties the cache; a fetch that fails raises and leaves
\* the cache as it was.
C35_CacheStability ==
    [][/\ \A t \in Threads :
             (/\ get_calls[t].pc = "idle"
              /\ get_calls'[t].pc # "idle"
              /\ get_calls'[t].key \in DOMAIN cache)
             => /\ get_calls'[t].pc = "returned"
                /\ get_calls'[t].got = <<cache[get_calls'[t].key]>>
                /\ fetch_count' = fetch_count
                /\ cache' = cache
       /\ CommitSha \in DOMAIN cache =>
             \/ CommitSha \in DOMAIN cache' /\ cache'[CommitSha] = cache[CommitSha]
             \/ cache' = <<>> /\ get_calls' = get_calls
       /\ \A t \in Threads :
             (get_calls[t].pc = "fetching" /\ get_calls'[t].pc # "fetching")
             => \/ get_calls'[t].pc = "raised" /\ cache' = cache
                \/ get_calls'[t].pc = "storing" /\ cache' = cache]_vars

\* Two calls for the commit SHA have returned the cached document after one
\* fetch: the second found it cached.
C35_Witness ==
    /\ CommitSha \in DOMAIN cache
    /\ \A t \in Threads :
          /\ get_calls[t].pc = "returned"
          /\ get_calls[t].key = CommitSha
          /\ get_calls[t].got = <<cache[CommitSha]>>
    /\ fetch_count[CommitSha] = 1


(* ---------------------------------------------------------------------- *)
(* Repeated and overlapping calls of execute on one executor               *)
(* ---------------------------------------------------------------------- *)

\* The calls of execute a thread makes, one after the other.
MaxCalls == 2

\* The graphs the repeated calls run on.
RepeatTrees ==
    {t \in ConcurrentTrees :
        \/ /\ t.nodes["n1"] = ConditionNode("flag", PyStr("yes"), "n3", "n2")
           /\ t.nodes["n2"] = ExitNodeWith(PyStr("done"))
        \/ /\ t.nodes["n1"] = LinearNode("llm", "flag", "flag", "n2")
           /\ t.nodes["n2"] = LinearNode("sql", NoneId, NoneId, "n3")}

\* The maps the callers of the repeated calls pass: with a flag or none, with
\* a call_id or none.
RepeatBags ==
    {b \in LiveBags :
        /\ Get(b, "job_submission_datetime") = PyStr("2024-01-15T10:30:00")
        /\ Get(b, "flag") \in {PyNone, PyStr("yes")}
        /\ Get(b, "call_id") # PyStr("")}

RepeatInit == \E tree \in RepeatTrees : LoadedExecutor(tree)

\* The map and the outcome of the call thread t is in.
CallRecord(t) ==
    [bag0 |-> runs[t].bag0, kind |-> runs[t].pc, out |-> runs[t].out,
     overlapped |-> runs[t].overlapped]

\* execute has returned or raised to thread t, which goes on to its next
\* call.
RunReturns(t) ==
    /\ runs[t].pc \in {"returned", "raised"}
    /\ runs[t].calls + 1 < MaxCalls
    /\ runs' = [runs EXCEPT ![t] = [IdleRun EXCEPT !.calls = runs[t].calls + 1,
                                                   !.prev = <<CallRecord(t)>>]]
    /\ UNCHANGED dicts
    /\ UNCHANGED <<execVars, cacheVars>>

RepeatNext ==
    \/ \E t \in Threads, bag \in RepeatBags : RunStart(t, bag)
    \/ \E t \in Threads : RunTurn(t)
    \/ \E t \in Threads : RunFinish(t)
    \/ \E t \in Threads : RunReturns(t)

\* Two threads call execute on one executor, each up to MaxCalls times.
RepeatSpec == RepeatInit /\ [][RepeatNext]_vars

\* The calls that are over: each thread's current one and the one before.
CallsOver ==
    {CallRecord(t) : t \in {u \in Threads : runs[u].pc \in {"returned", "raised"}}}
    \cup {runs[t].prev[1] : t \in {u \in Threads : runs[u].prev # <<>>}}

\* C37: two calls of execute on one executor with equal initial maps end the
\* same way, with equal status, execution_path and final_output when they
\* return, whatever calls were made before them or overlap them.
C37_Determinism ==
    \A a, b \in CallsOver :
        a.bag0 = b.bag0 => a.kind = b.kind /\ a.out = b.out

\* A call that ran alone and a later call on an equal map, made by the other
\* thread while a call on a different map was in progress, have both
\* returned, after two nodes each.
C37_Witness ==
    /\ runs["t1"].prev # <<>>
    /\ ~runs["t1"].prev[1].overlapped
    /\ runs["t1"].prev[1].kind = "returned"
    /\ runs["t2"].pc = "returned"
    /\ runs["t2"].overlapped
    /\ runs["t2"].bag0 = runs["t1"].prev[1].bag0
    /\ runs["t1"].pc = "returned"
    /\ runs["t1"].bag0 # runs["t2"].bag0
    /\ runs["t1"].out # runs["t2"].out
    /\ Len(runs["t2"].out[1].execution_path) = 2


\* C31: no step of a call of execute changes the executor's graph, the
\* document it was read from or the configuration cache: after any sequence
\* of calls, whether they returned or raised, the name, start_node and node
\* map are those the load installed.
C31_GraphReadOnly ==
    /\ [](tree_config = TreeOf(document))
    /\ [][/\ tree_config' = tree_config
          /\ document' = document
          /\ cache' = cache]_vars

\* Each thread has made a call that raised and then one that returned, and
\* the graph is the loaded one.
C31_Witness ==
    /\ \A t \in Threads :
          /\ runs[t].prev # <<>>
          /\ runs[t].prev[1].kind = "raised"
          /\ runs[t].pc = "returned"
          /\ Len(runs[t].out[1].execution_path) >= 2
    /\ tree_config \in RepeatTrees
    /\ tree_config = TreeOf(document)


(* ---------------------------------------------------------------------- *)
(* The background task of the service (main.py)                            *)
(* ---------------------------------------------------------------------- *)

\* initial_workflow_data of _process_call_background: the uploaded payload,
\* the call_id of the request, which may be empty, the file name, and
\* job_submission_datetime.isoformat().
BackgroundBags ==
    {BagOf({<<"audio_file", PyBytes(a)>>, <<"call_id", PyStr(c)>>,
            <<"filename", PyStr("a.mp3")>>,
            <<"job_submission_datetime", PyStr("2024-01-15T10:30:00")>>}) :
        a \in {"", "a"}, c \in {"1", ""}}

\* The commit_sha process_call hands to the task: the one of the request,
\* which may be empty, or the latest one; never None.
BackgroundShas == {CommitSha, ""}

\* The except clause of the task: the error of the constructor or of execute
\* is logged and the task ends.
TaskCatches ==
    /\ pc \in {"init_failed", "load_failed", "raised"}
    /\ pc' = "task_done"
    /\ err' = ""
    /\ UNCHANGED <<commit_sha, document, tree_config, heap, workflow_data,
                   call_snapshot, execution_path, current_node_id, result,
                   saved, handler_calls, exit_calls, collab_calls>>
    /\ UNCHANGED <<cacheVars, runVars>>

\* execute has returned: the status is logged and the task ends.
TaskCompletes ==
    /\ pc = "returned"
    /\ pc' = "task_done"
    /\ UNCHANGED <<err, commit_sha, document, tree_config, heap, workflow_data,
                   call_snapshot, execution_path, current_node_id, result,
                   saved, handler_calls, exit_calls, collab_calls>>
    /\ UNCHANGED <<cacheVars, runVars>>

BackgroundNext ==
    \/ \E sha \in BackgroundShas, config \in Documents : TreeExecutor(sha, config)
    \/ \E bag \in BackgroundBags : ExecuteStart(bag)
    \/ RaiseUnknownNode
    \/ RaiseUnknownType
    \/ HandlerStep
    \/ Finish
    \/ TaskCatches
    \/ TaskCompletes

\* One registered call: the task constructs an executor, executes and ends.
BackgroundSpec == Init /\ [][BackgroundNext]_vars

\* C38: an error raised by the constructor or by execute is caught by the
\* task, which ends with no error raised to its caller; and once the task has
\* ended a result file of the call exists only if execute returned.
C38_BackgroundNeverPropagates ==
    /\ [][(pc \in {"init_failed", "load_failed", "raised"}) =>
             (pc' = "task_done" /\ err' = "")]_vars
    /\ [](pc = "task_done" => err = "")
    /\ [](pc = "task_done" /\ saved # <<>> => result # <<>>)
====
